---- MODULE Spec2Model ----
(***************************************************************************)
(* Model of the brightness control logic of src/Main.cpp: the main message *)
(* loop (WinMain, WndProc), the per-frame input edge/repeat detector       *)
(* (ProcessInput), the dual-mode brightness state (GetCurrentBrightness,   *)
(* SetCurrentBrightness, GetIncrement, GetMaxBrightness, ToggleMode), the *)
(* colour of the inner brush and the layout that Render draws.             *)
(*                                                                         *)
(* Units.  Nits are kept as integers in hundredths of a nit (800 nits is   *)
(* 80000, 0.01 nit is 1), so every step of both modes is exact.  Brush     *)
(* colour components are kept in millionths of the scRGB unit.  Times are  *)
(* milliseconds of the 32-bit tick counter; a DWORD is kept as its two     *)
(* 16-bit halves [hi, lo] and its arithmetic is modulo 2^32.  Screen       *)
(* coordinates are kept in 24ths of a pixel, in which every division of    *)
(* the layout is exact.                                                    *)
(***************************************************************************)
EXTENDS Integers, Sequences, FiniteSets, TLC

VARIABLES
    pc,                   \* position of WinMain: "loop", "render", "done"
    msg,                  \* msg.message of the main loop
    quitPending,          \* the thread's quit flag set by PostQuitMessage
    g_mode,               \* BrightnessMode
    g_brightnessMaxWhite, \* hundredths of a nit
    g_brightnessMinBlack, \* hundredths of a nit
    g_innerBrush,         \* colour component of g_innerBrush, millionths
    g_screenWidth,        \* pixels
    g_screenHeight,       \* pixels
    drawn,                \* what the last Render drew
    leftWasPressed,
    rightWasPressed,
    bWasPressed,
    spaceWasPressed,
    leftPressStartTime,
    rightPressStartTime,
    lastRepeatTime,
    tick,                 \* what GetTickCount returns now
    now,                  \* history: milliseconds since the first frame (no wrap)
    frames,               \* history: number of ProcessInput calls so far
    changes,              \* history: frames whose merged signals differ from the previous frame's
    cmd,                  \* history: what the ProcessInput of the current frame did
    leftHold,             \* history: the running hold of the decrease signal
    rightHold,            \* history: the running hold of the increase signal
    tgl,                  \* history: toggle-only frames since the last delta command
    solo                  \* history: lastRepeatTime of the runs with one signal alone

vars == <<pc, msg, quitPending, g_mode, g_brightnessMaxWhite, g_brightnessMinBlack,
          g_innerBrush, g_screenWidth, g_screenHeight, drawn, leftWasPressed, rightWasPressed, bWasPressed, spaceWasPressed,
          leftPressStartTime, rightPressStartTime, lastRepeatTime, tick, now, frames,
          changes, cmd, leftHold, rightHold, tgl, solo>>

-----------------------------------------------------------------------------
(* Bounds of the model *)

\* Spec: frames (ProcessInput, Render) in one run
MaxFrames == 3

\* Spec: time one frame takes, ms (Present blocks until the next refresh; here
\* every frame stalls for the repeat delay, so that a held signal repeats)
FrameDeltas == {1500}

\* SpecHold: length of one run, in frames of 100 ms
MaxTicks == 20

\* SpecHold: frames in one run whose merged signals differ from the previous frame's
MaxChanges == 3

\* SpecFair: the same, for the runs in which the loop keeps running
MaxFairChanges == 2

\* tick counter at the first frame: shortly after boot, and shortly before the wrap
StartTicks == {[hi |-> 0, lo |-> 1000], [hi |-> 65535, lo |-> 65036]}

\* brightness state at the start of a run: the start-up state and states near the
\* limits of each mode
StartUp == <<"MaxWhite", 80000, 10>>

StartBrightness ==
    { StartUp,
      <<"MaxWhite", 1000000, 0>>,
      <<"MinBlack", 0, 100>> }

\* screen of Spec, SpecHold and SpecFair: <<width, height>> in pixels
Screen == <<1920, 1080>>

\* SpecLayout: screens, landscape and portrait, down to one pixel
ScreenSizes ==
    { Screen, <<3840, 2160>>, <<1366, 768>>, <<1080, 1920>>, <<7, 5>>, <<1, 100>>, <<1, 1>> }

\* SpecLayout: frames (ProcessInput, Render) in one run
MaxLayoutFrames == 3

\* SpecMerge: frames in one run
MaxMergeFrames == 3

\* SpecMerge: time one frame takes, ms (half the repeat delay)
MergeDeltas == {750}

\* SpecRepress: frames in one run (a hold past the repeat delay, a release and a
\* second hold past the repeat delay)
MaxRepressFrames == 9

\* SpecRepress: frames in one run whose merged signals differ from the previous frame's
MaxRepressChanges == 3

\* SpecRepress: time one frame takes, ms
RepressDeltas == {500}

-----------------------------------------------------------------------------
(* Program constants *)

REPEAT_DELAY == 1500
REPEAT_INTERVAL == 200
STICK_THRESHOLD == 16000

\* DWORD arithmetic on [hi, lo], value hi * 65536 + lo
DwZero == [hi |-> 0, lo |-> 0]

\* a + d for 0 <= d < 65536
DwAdd(a, d) ==
    LET lo == a.lo + d
    IN  [hi |-> (a.hi + (lo \div 65536)) % 65536, lo |-> lo % 65536]

\* a - b that stops at zero instead of wrapping
DwSubSaturating(a, b) ==
    IF a.hi < b.hi \/ (a.hi = b.hi /\ a.lo < b.lo)
    THEN [hi |-> 0, lo |-> 0]
    ELSE LET lo == a.lo - b.lo
             borrow == IF lo < 0 THEN 1 ELSE 0
         IN  [hi |-> a.hi - b.hi - borrow, lo |-> (lo + 65536) % 65536]

\* a - b
DwSub(a, b) ==
    LET lo == a.lo - b.lo
        borrow == IF lo < 0 THEN 1 ELSE 0
    IN  [hi |-> (a.hi - b.hi - borrow + 65536) % 65536, lo |-> (lo + 65536) % 65536]

\* a >= n for 0 <= n < 65536
DwAtLeast(a, n) == a.hi > 0 \/ a.lo >= n

max(a, b) == IF a < b THEN b ELSE a
min(a, b) == IF b < a THEN b ELSE a

-----------------------------------------------------------------------------
(* Brightness state *)

\* brightness / 80.0f: hundredths of a nit to millionths of the scRGB unit
ScRGB(brightness) == (brightness * 1000) \div 8

Globals ==
    [ g_mode |-> g_mode,
      g_brightnessMaxWhite |-> g_brightnessMaxWhite,
      g_brightnessMinBlack |-> g_brightnessMinBlack,
      g_innerBrush |-> g_innerBrush ]

GetCurrentBrightness(g) ==
    IF g.g_mode = "MaxWhite" THEN g.g_brightnessMaxWhite ELSE g.g_brightnessMinBlack

SetCurrentBrightness(g, brightness) ==
    LET h == IF g.g_mode = "MaxWhite"
             THEN [g EXCEPT !.g_brightnessMaxWhite = brightness]
             ELSE [g EXCEPT !.g_brightnessMinBlack = brightness]
    IN  [h EXCEPT !.g_innerBrush = ScRGB(brightness)]

GetIncrement(g) == IF g.g_mode = "MaxWhite" THEN 1000 ELSE 1

GetMaxBrightness(g) == IF g.g_mode = "MaxWhite" THEN 1000000 ELSE 100

\* ToggleMode that leaves the brush at the other mode's colour
ToggleModeStaleBrush(g) ==
    [g EXCEPT !.g_mode = IF g.g_mode = "MaxWhite" THEN "MinBlack" ELSE "MaxWhite"]

ToggleMode(g) ==
    LET h == [g EXCEPT !.g_mode = IF g.g_mode = "MaxWhite" THEN "MinBlack" ELSE "MaxWhite"]
    IN  [h EXCEPT !.g_innerBrush = ScRGB(GetCurrentBrightness(h))]

-----------------------------------------------------------------------------
(* Render: the layout, in 24ths of a pixel *)

Px(n) == 24 * n

RectF(left, top, right, bottom) ==
    [left |-> left, top |-> top, right |-> right, bottom |-> bottom]

\* decimal digits of n >= 0, as a sequence of characters
RECURSIVE Digits(_)
Digits(n) ==
    LET d == <<"0", "1", "2", "3", "4", "5", "6", "7", "8", "9">>[(n % 10) + 1]
    IN  IF n < 10 THEN <<d>> ELSE Append(Digits(n \div 10), d)

\* std::to_wstring(int)
IntToWString(n) == Digits(n)

\* std::to_wstring(float), "%f": six digits after the point
FloatToWString(brightness) ==
    Digits(brightness \div 100) \o <<".">> \o Digits((brightness % 100) \div 10)
        \o Digits(brightness % 10) \o <<"0", "0", "0", "0">>

\* substr(0, 4)
Substr4(str) == SubSeq(str, 1, min(4, Len(str)))

\* the number shown below the squares, without its " nits"
TextOf(g) ==
    IF g.g_mode = "MaxWhite"
    THEN IntToWString(GetCurrentBrightness(g) \div 100)
    ELSE Substr4(FloatToWString(GetCurrentBrightness(g)))

\* nothing drawn yet
Undrawn == [outer |-> <<>>, inner |-> <<>>, textRect |-> <<>>, text |-> <<>>]

\* a layout that centres the inner square on the screen only below the outer one
RenderLayoutMoving(w, h, g) ==
    LET rectWidth   == Px(h) \div 6
        rectHeight  == rectWidth
        x           == (Px(w) - rectWidth) \div 2
        y           == (Px(h) - rectHeight) \div 2
        innerWidth  == rectWidth \div 2
        innerHeight == rectHeight \div 2
        innerX      == IF g.g_mode = "MaxWhite" THEN x + (rectWidth - innerWidth) \div 2 ELSE x
        innerY      == IF g.g_mode = "MaxWhite" THEN y + (rectHeight - innerHeight) \div 2 ELSE y
        gap         == (rectWidth - innerWidth) \div 2
    IN  [ outer    |-> IF g.g_mode = "MaxWhite"
                       THEN <<RectF(x, y, x + rectWidth, y + rectHeight)>>
                       ELSE <<>>,
          inner    |-> <<RectF(innerX, innerY, innerX + innerWidth, innerY + innerHeight)>>,
          textRect |-> <<RectF(x, y + rectHeight + gap,
                               x + rectWidth, y + rectHeight + gap + Px(40))>>,
          text     |-> TextOf(g) ]

\* what Render draws on a screen of w by h pixels: the rectangle filled with the
\* white brush, the rectangle filled with the inner brush, the text and its rectangle
RenderLayout(w, h, g) ==
    LET rectWidth   == Px(h) \div 6
        rectHeight  == rectWidth
        x           == (Px(w) - rectWidth) \div 2
        y           == (Px(h) - rectHeight) \div 2
        innerWidth  == rectWidth \div 2
        innerHeight == rectHeight \div 2
        innerX      == x + (rectWidth - innerWidth) \div 2
        innerY      == y + (rectHeight - innerHeight) \div 2
        gap         == (rectWidth - innerWidth) \div 2
    IN  [ outer    |-> IF g.g_mode = "MaxWhite"
                       THEN <<RectF(x, y, x + rectWidth, y + rectHeight)>>
                       ELSE <<>>,
          inner    |-> <<RectF(innerX, innerY, innerX + innerWidth, innerY + innerHeight)>>,
          textRect |-> <<RectF(x, y + rectHeight + gap,
                               x + rectWidth, y + rectHeight + gap + Px(40))>>,
          text     |-> TextOf(g) ]

-----------------------------------------------------------------------------
(* Input sampling *)

Keys == SUBSET {"VK_LEFT", "VK_RIGHT", "VK_SPACE"}

Buttons == {"DPAD_LEFT", "DPAD_RIGHT", "B", "X"}

\* XInputGetState(0, &state): no pad, or a pad with one control in use
PadStates ==
    {[connected |-> FALSE, wButtons |-> {}, sThumbLX |-> 0]}
    \cup {[connected |-> TRUE, wButtons |-> {b}, sThumbLX |-> 0] : b \in Buttons}
    \cup {[connected |-> TRUE, wButtons |-> {}, sThumbLX |-> x] :
             x \in {-16001, -16000, 0, 16000, 16001}}

Samples == [keys : Keys, pad : PadStates]

\* the left signal taken from the pad alone whenever a pad answers
leftPressedOfPadFirst(s) ==
    IF s.pad.connected
    THEN "DPAD_LEFT" \in s.pad.wButtons \/ s.pad.sThumbLX < -STICK_THRESHOLD
    ELSE "VK_LEFT" \in s.keys

leftPressedOf(s) ==
    \/ "VK_LEFT" \in s.keys
    \/ s.pad.connected /\ "DPAD_LEFT" \in s.pad.wButtons
    \/ s.pad.connected /\ s.pad.sThumbLX < -STICK_THRESHOLD

rightPressedOf(s) ==
    \/ "VK_RIGHT" \in s.keys
    \/ s.pad.connected /\ "DPAD_RIGHT" \in s.pad.wButtons
    \/ s.pad.connected /\ s.pad.sThumbLX > STICK_THRESHOLD

spacePressedKeyOnly(s) == "VK_SPACE" \in s.keys

spacePressedOf(s) ==
    \/ "VK_SPACE" \in s.keys
    \/ s.pad.connected /\ "X" \in s.pad.wButtons

bPressedOf(s) == "B" \in s.pad.wButtons

\* bWasPressed is written only when the pad answers
bWasPressedAfter(s, was) == IF s.pad.connected THEN bPressedOf(s) ELSE was

\* PostQuitMessage(0) of the B button
bQuits(s, was) == s.pad.connected /\ bPressedOf(s) /\ ~was

-----------------------------------------------------------------------------
(* ProcessInput: the working record w carries the globals g, the timer     *)
(* statics and the commands applied so far in this call.                   *)

Working ==
    [ g |-> Globals,
      leftPressStartTime |-> leftPressStartTime,
      rightPressStartTime |-> rightPressStartTime,
      lastRepeatTime |-> lastRepeatTime,
      tog |-> FALSE, dec |-> FALSE, inc |-> FALSE ]

\* a toggle that resets the value of the mode it enters to its start-up value
HandleToggleResetting(w, spacePressed, spaceWas) ==
    IF spacePressed /\ ~spaceWas
    THEN LET h == ToggleMode(w.g)
         IN  [w EXCEPT !.g = SetCurrentBrightness(h, IF h.g_mode = "MaxWhite" THEN 80000 ELSE 10),
                       !.tog = TRUE]
    ELSE w

\* if (spacePressed && !spaceWasPressed) ToggleMode();
HandleToggle(w, spacePressed, spaceWas) ==
    IF spacePressed /\ ~spaceWas
    THEN [w EXCEPT !.g = ToggleMode(w.g), !.tog = TRUE]
    ELSE w

DecreaseStep(w, INCREMENT) ==
    [w EXCEPT !.g = SetCurrentBrightness(w.g, max(0, GetCurrentBrightness(w.g) - INCREMENT)),
              !.dec = TRUE]

IncreaseStep(w, INCREMENT, MAX_BRIGHTNESS) ==
    [w EXCEPT !.g = SetCurrentBrightness(w.g,
                        min(MAX_BRIGHTNESS, GetCurrentBrightness(w.g) + INCREMENT)),
              !.inc = TRUE]

\* the right repeat with the delay compared by > instead of >=
RightRepeatDueStrict(w, currentTime) ==
    /\ DwAtLeast(DwSub(currentTime, w.rightPressStartTime), REPEAT_DELAY + 1)
    /\ DwAtLeast(DwSub(currentTime, w.lastRepeatTime), REPEAT_INTERVAL)

\* the left repeat without the initial delay
LeftRepeatDueNoDelay(w, currentTime) ==
    DwAtLeast(DwSub(currentTime, w.lastRepeatTime), REPEAT_INTERVAL)

\* the left repeat without the interval between repeats
LeftRepeatDueNoInterval(w, currentTime) ==
    DwAtLeast(DwSub(currentTime, w.leftPressStartTime), REPEAT_DELAY)

LeftRepeatDue(w, currentTime) ==
    /\ DwAtLeast(DwSub(currentTime, w.leftPressStartTime), REPEAT_DELAY)
    /\ DwAtLeast(DwSub(currentTime, w.lastRepeatTime), REPEAT_INTERVAL)

RightRepeatDue(w, currentTime) ==
    /\ DwAtLeast(DwSub(currentTime, w.rightPressStartTime), REPEAT_DELAY)
    /\ DwAtLeast(DwSub(currentTime, w.lastRepeatTime), REPEAT_INTERVAL)

\* a left press edge that restarts the press-start time only when none is stored
HandleLeftKeepingTimer(w, leftPressed, leftWas, currentTime, INCREMENT) ==
    IF ~leftPressed THEN w
    ELSE IF ~leftWas
    THEN [DecreaseStep(w, INCREMENT) EXCEPT
              !.leftPressStartTime = IF @ = DwZero THEN currentTime ELSE @,
              !.lastRepeatTime = currentTime]
    ELSE IF LeftRepeatDue(w, currentTime)
    THEN [DecreaseStep(w, INCREMENT) EXCEPT !.lastRepeatTime = currentTime]
    ELSE w

HandleLeft(w, leftPressed, leftWas, currentTime, INCREMENT) ==
    IF ~leftPressed THEN w
    ELSE IF ~leftWas
    THEN [DecreaseStep(w, INCREMENT) EXCEPT !.leftPressStartTime = currentTime,
                                            !.lastRepeatTime = currentTime]
    ELSE IF LeftRepeatDue(w, currentTime)
    THEN [DecreaseStep(w, INCREMENT) EXCEPT !.lastRepeatTime = currentTime]
    ELSE w

HandleRight(w, rightPressed, rightWas, currentTime, INCREMENT, MAX_BRIGHTNESS) ==
    IF ~rightPressed THEN w
    ELSE IF ~rightWas
    THEN [IncreaseStep(w, INCREMENT, MAX_BRIGHTNESS) EXCEPT
              !.rightPressStartTime = currentTime,
              !.lastRepeatTime = currentTime]
    ELSE IF RightRepeatDue(w, currentTime)
    THEN [IncreaseStep(w, INCREMENT, MAX_BRIGHTNESS) EXCEPT !.lastRepeatTime = currentTime]
    ELSE w

\* the step size and the maximum are read once, on entry
EntryIncrement(g) == GetIncrement(g)
EntryMaxBrightness(g) == GetMaxBrightness(g)

\* a ProcessInput that handles the toggle after the two directions
ProcessInputResultToggleLast(s) ==
    LET currentTime    == tick
        INCREMENT      == EntryIncrement(Globals)
        MAX_BRIGHTNESS == EntryMaxBrightness(Globals)
        w1 == HandleLeft(Working, leftPressedOf(s), leftWasPressed, currentTime, INCREMENT)
        w2 == HandleRight(w1, rightPressedOf(s), rightWasPressed, currentTime,
                          INCREMENT, MAX_BRIGHTNESS)
        w3 == HandleToggle(w2, spacePressedOf(s), spaceWasPressed)
    IN  w3

ProcessInputResult(s) ==
    LET currentTime    == tick
        INCREMENT      == EntryIncrement(Globals)
        MAX_BRIGHTNESS == EntryMaxBrightness(Globals)
        w1 == HandleToggle(Working, spacePressedOf(s), spaceWasPressed)
        w2 == HandleLeft(w1, leftPressedOf(s), leftWasPressed, currentTime, INCREMENT)
        w3 == HandleRight(w2, rightPressedOf(s), rightWasPressed, currentTime,
                          INCREMENT, MAX_BRIGHTNESS)
    IN  w3

-----------------------------------------------------------------------------
(* History of a hold: held, the time (now) of its press-edge frame, the    *)
(* commands emitted for it so far, whether it has been sampled every       *)
(* 100 ms with the other direction never pressed (reg), the active value   *)
(* just before its first command (v0, -1 once a toggle intervened or the   *)
(* hold stopped being regular), the time (now) of its last command         *)
(* (lastAt) and whether the hold of this signal before it had repeated     *)
(* before it was released (rep, kept while the signal is released).        *)

NoHold == [held |-> FALSE, edgeAt |-> 0, n |-> 0, reg |-> FALSE, v0 |-> -1,
           lastAt |-> 0, rep |-> FALSE]

HoldAfter(h, pressed, was, emitted, otherPressed, toggled, before) ==
    IF ~pressed THEN [NoHold EXCEPT !.rep = IF h.held THEN h.n >= 2 ELSE h.rep]
    ELSE IF ~was
    THEN [held |-> TRUE, edgeAt |-> now, n |-> IF emitted THEN 1 ELSE 0,
          reg |-> ~otherPressed, v0 |-> IF otherPressed THEN -1 ELSE before,
          lastAt |-> now, rep |-> h.rep]
    ELSE [h EXCEPT !.n = IF emitted THEN @ + 1 ELSE @,
                   !.reg = @ /\ ~otherPressed,
                   !.v0 = IF @ = -1 \/ toggled \/ otherPressed \/ ~h.reg THEN -1 ELSE @,
                   !.lastAt = IF emitted THEN now ELSE @]

\* a frame of another length than 100 ms ends the regular sampling of a hold
HoldAcross(h, d) ==
    IF h.held /\ d # 100 THEN [h EXCEPT !.reg = FALSE, !.v0 = -1] ELSE h

(* History of toggles: n toggle-only frames in a row since the snapshot    *)
(* snap = <<mode, maxWhite, minBlack>> was taken, no delta command between *)

NoToggle == [n |-> 0, snap |-> <<>>]

ToggleAfter(t, w) ==
    IF w.dec \/ w.inc THEN NoToggle
    ELSE IF ~w.tog THEN t
    ELSE IF t.n = 1 THEN [t EXCEPT !.n = 2]
    ELSE [n |-> 1, snap |-> <<g_mode, g_brightnessMaxWhite, g_brightnessMinBlack>>]

NoSample == [keys |-> {}, pad |-> [connected |-> FALSE, wButtons |-> {}, sThumbLX |-> 0]]

\* nothing done: the value of cmd outside a frame (prev: the sample of the frame
\* before, in the runs that keep it)
NoCmd == [sample |-> NoSample, prev |-> NoSample, tog |-> FALSE, dec |-> FALSE, inc |-> FALSE,
          quit |-> FALSE, decSolo |-> FALSE, incSolo |-> FALSE]

(* The runs with one signal alone: the same clock and the same history of  *)
(* one signal, the other signal never pressed.  Such a run differs from    *)
(* this one only in lastRepeatTime, kept in solo.left and solo.right.      *)

SoloLeft(s) ==
    HandleLeft([Working EXCEPT !.lastRepeatTime = solo.left],
               leftPressedOf(s), leftWasPressed, tick, EntryIncrement(Globals))

SoloRight(s) ==
    HandleRight([Working EXCEPT !.lastRepeatTime = solo.right],
                rightPressedOf(s), rightWasPressed, tick,
                EntryIncrement(Globals), EntryMaxBrightness(Globals))

-----------------------------------------------------------------------------
(* The main loop *)

\* WM_NULL stands for every message that WndProc hands to DefWindowProc
Messages == {"WM_NULL", "WM_KEYDOWN_ESCAPE", "WM_DESTROY", "WM_QUIT"}

\* a loop that never looks at the message
LoopConditionAlways(m) == TRUE

\* while (msg.message != WM_QUIT)
LoopCondition(m) == m # "WM_QUIT"

\* WndProc: does this message call PostQuitMessage
WndProcQuits(m) == m \in {"WM_KEYDOWN_ESCAPE", "WM_DESTROY"}

\* a quit has been issued
QuitIssued == quitPending \/ msg = "WM_QUIT"

InitFrom(starts, screens) ==
    /\ pc = "loop"
    /\ msg = "WM_NULL"
    /\ quitPending = FALSE
    /\ \E b \in starts :
          /\ g_mode = b[1]
          /\ g_brightnessMaxWhite = b[2]
          /\ g_brightnessMinBlack = b[3]
          /\ g_innerBrush = ScRGB(IF b[1] = "MaxWhite" THEN b[2] ELSE b[3])
    /\ \E s \in screens : g_screenWidth = s[1] /\ g_screenHeight = s[2]
    /\ drawn = Undrawn
    /\ leftWasPressed = FALSE
    /\ rightWasPressed = FALSE
    /\ bWasPressed = FALSE
    /\ spaceWasPressed = FALSE
    /\ leftPressStartTime = DwZero
    /\ rightPressStartTime = DwZero
    /\ lastRepeatTime = DwZero
    /\ tick \in StartTicks
    /\ now = 0
    /\ frames = 0
    /\ changes = 0
    /\ cmd = NoCmd
    /\ leftHold = NoHold
    /\ rightHold = NoHold
    /\ tgl = NoToggle
    /\ solo = [left |-> DwZero, right |-> DwZero]

Init == InitFrom(StartBrightness, {Screen})

\* PeekMessage returned a message: TranslateMessage, DispatchMessage.  WM_QUIT is
\* handed out only once PostQuitMessage has set the quit flag, and clears it.
Dispatch(m) ==
    /\ pc = "loop"
    /\ LoopCondition(msg)
    /\ m = "WM_QUIT" => quitPending
    /\ msg' = m
    /\ quitPending' = IF m = "WM_QUIT" THEN FALSE
                      ELSE IF WndProcQuits(m) THEN TRUE ELSE quitPending
    /\ UNCHANGED <<pc, g_mode, g_brightnessMaxWhite, g_brightnessMinBlack, g_innerBrush,
                   g_screenWidth, g_screenHeight, drawn, leftWasPressed, rightWasPressed, bWasPressed, spaceWasPressed,
                   leftPressStartTime, rightPressStartTime, lastRepeatTime, tick, now,
                   frames, changes, cmd, leftHold, rightHold, tgl, solo>>

\* PeekMessage returned FALSE (no message, no quit pending): ProcessInput()
ProcessInput(s) ==
    /\ pc = "loop"
    /\ LoopCondition(msg)
    /\ ~quitPending
    /\ LET w  == ProcessInputResult(s)
           lp == leftPressedOf(s)
           rp == rightPressedOf(s)
           sp == spacePressedOf(s)
           bw == bWasPressedAfter(s, bWasPressed)
           g1 == IF w.tog THEN ToggleMode(Globals) ELSE Globals
           sl == SoloLeft(s)
           sr == SoloRight(s)
       IN  /\ changes' = IF <<lp, rp, sp, bw>> = <<leftWasPressed, rightWasPressed,
                                                    spaceWasPressed, bWasPressed>>
                         THEN changes ELSE changes + 1
           /\ g_mode' = w.g.g_mode
           /\ g_brightnessMaxWhite' = w.g.g_brightnessMaxWhite
           /\ g_brightnessMinBlack' = w.g.g_brightnessMinBlack
           /\ g_innerBrush' = w.g.g_innerBrush
           /\ leftPressStartTime' = w.leftPressStartTime
           /\ rightPressStartTime' = w.rightPressStartTime
           /\ lastRepeatTime' = w.lastRepeatTime
           /\ leftWasPressed' = lp
           /\ rightWasPressed' = rp
           /\ spaceWasPressed' = sp
           /\ bWasPressed' = bw
           /\ quitPending' = bQuits(s, bWasPressed)
           /\ cmd' = [sample |-> s, prev |-> cmd.prev, tog |-> w.tog, dec |-> w.dec, inc |-> w.inc,
                      quit |-> bQuits(s, bWasPressed),
                      decSolo |-> sl.dec, incSolo |-> sr.inc]
           /\ solo' = [left |-> sl.lastRepeatTime, right |-> sr.lastRepeatTime]
           /\ leftHold' = HoldAfter(leftHold, lp, leftWasPressed, w.dec, rp, w.tog,
                                    GetCurrentBrightness(g1))
           /\ rightHold' = HoldAfter(rightHold, rp, rightWasPressed, w.inc, lp, w.tog,
                                     GetCurrentBrightness(g1))
           /\ tgl' = ToggleAfter(tgl, w)
    /\ frames' = frames + 1
    /\ pc' = "render"
    /\ UNCHANGED <<msg, tick, now, g_screenWidth, g_screenHeight, drawn>>

\* Render(): draws with g_innerBrush; Present(1, 0) blocks until the next refresh.
\* c is what the history keeps of the frame.
RenderWith(d, c) ==
    /\ pc = "render"
    /\ pc' = "loop"
    /\ tick' = DwAdd(tick, d)
    /\ now' = now + d
    /\ cmd' = c
    /\ leftHold' = HoldAcross(leftHold, d)
    /\ rightHold' = HoldAcross(rightHold, d)
    /\ tgl' = IF tgl.n = 2 THEN NoToggle ELSE tgl
    /\ drawn' = RenderLayout(g_screenWidth, g_screenHeight, Globals)
    /\ UNCHANGED <<msg, quitPending, g_mode, g_brightnessMaxWhite, g_brightnessMinBlack,
                   g_innerBrush, g_screenWidth, g_screenHeight, leftWasPressed, rightWasPressed, bWasPressed,
                   spaceWasPressed, leftPressStartTime, rightPressStartTime,
                   lastRepeatTime, frames, changes, solo>>

Render(d) == RenderWith(d, NoCmd)

\* Render, the history keeping the sample of the frame
RenderKeeping(d) == RenderWith(d, [NoCmd EXCEPT !.prev = cmd.sample])

\* the loop condition fails: CleanUp(), return
Exit ==
    /\ pc = "loop"
    /\ ~LoopCondition(msg)
    /\ pc' = "done"
    /\ UNCHANGED <<msg, quitPending, g_mode, g_brightnessMaxWhite, g_brightnessMinBlack,
                   g_innerBrush, g_screenWidth, g_screenHeight, drawn, leftWasPressed, rightWasPressed, bWasPressed,
                   spaceWasPressed, leftPressStartTime, rightPressStartTime,
                   lastRepeatTime, tick, now, frames, changes, cmd, leftHold, rightHold,
                   tgl, solo>>

(* Spec: every input source, a few frames, each a stall of 1500 ms         *)
Next ==
    \/ \E m \in Messages : Dispatch(m)
    \/ \E s \in Samples : frames < MaxFrames /\ ProcessInput(s)
    \/ \E d \in FrameDeltas : Render(d)
    \/ Exit

Spec == Init /\ [][Next]_vars

(* SpecHold: the decrease and increase keys alone, sampled every 100 ms    *)
(* from the first frame that samples a key, from the start-up brightness   *)
HoldSamples ==
    { s \in Samples : ~s.pad.connected /\ "VK_SPACE" \notin s.keys }

InitHold == InitFrom({StartUp}, {Screen})

HoldFrameWithin(maxChanges) ==
    \E s \in HoldSamples :
        /\ now <= MaxTicks * 100
        /\ ProcessInput(s)
        /\ changes' <= maxChanges
        /\ frames = 0 => changes' = 1

HoldFrame == HoldFrameWithin(MaxChanges)

NextHold ==
    \/ \E m \in Messages : Dispatch(m)
    \/ HoldFrame
    \/ Render(100)
    \/ Exit

SpecHold == InitHold /\ [][NextHold]_vars

(* SpecLayout: every screen size, the toggle by key and by button, the     *)
(* increase key                                                            *)
LayoutSamples ==
    { s \in Samples : /\ s.keys \subseteq {"VK_SPACE", "VK_RIGHT"}
                      /\ s.pad.connected => s.pad.wButtons = {"X"} }

InitLayout == InitFrom({StartUp}, ScreenSizes)

LayoutFrame == \E s \in LayoutSamples : frames < MaxLayoutFrames /\ ProcessInput(s)

NextLayout ==
    \/ \E m \in Messages : Dispatch(m)
    \/ LayoutFrame
    \/ \E d \in FrameDeltas : Render(d)
    \/ Exit

SpecLayout == InitLayout /\ [][NextLayout]_vars

(* SpecMerge: every source of the decrease and increase signals, frames of *)
(* half the repeat delay                                                   *)
MergeSamples ==
    { s \in Samples : /\ "VK_SPACE" \notin s.keys
                      /\ s.pad.wButtons \subseteq {"DPAD_LEFT", "DPAD_RIGHT"} }

MergeFrame == \E s \in MergeSamples : frames < MaxMergeFrames /\ ProcessInput(s)

NextMerge ==
    \/ \E m \in Messages : Dispatch(m)
    \/ MergeFrame
    \/ \E d \in MergeDeltas : RenderKeeping(d)
    \/ Exit

SpecMerge == InitHold /\ [][NextMerge]_vars

(* SpecRepress: the decrease and increase keys, sampled every 500 ms from  *)
(* the first frame that samples a key, long enough for two holds past the  *)
(* repeat delay                                                            *)
RepressFrame ==
    \E s \in HoldSamples :
        /\ frames < MaxRepressFrames
        /\ ProcessInput(s)
        /\ changes' <= MaxRepressChanges
        /\ frames = 0 => changes' = 1

NextRepress ==
    \/ \E m \in Messages : Dispatch(m)
    \/ RepressFrame
    \/ \E d \in RepressDeltas : Render(d)
    \/ Exit

SpecRepress == InitHold /\ [][NextRepress]_vars

-----------------------------------------------------------------------------
(* What the specification says of the brightness state *)

\* currentNits(): the stored value of mode m
NitsOf(m) == IF m = "MaxWhite" THEN g_brightnessMaxWhite ELSE g_brightnessMinBlack

stepForMode(m) == IF m = "MaxWhite" THEN 1000 ELSE 1

maxForMode(m) == IF m = "MaxWhite" THEN 1000000 ELSE 100

clamp(v, lo, hi) == IF v < lo THEN lo ELSE IF v > hi THEN hi ELSE v

\* a step of the model that is one call of ProcessInput
IsProcessInput == pc = "loop" /\ pc' = "render"

\* C1: in every reachable state maxWhiteNits is within [0, 10000] and minBlackNits
\* within [0, 1], whatever signals the frames sample.  The code breaks it: a frame
\* that toggles and increases uses the step and the maximum of the mode it leaves.
C1_NitsInRange ==
    /\ 0 <= g_brightnessMaxWhite /\ g_brightnessMaxWhite <= maxForMode("MaxWhite")
    /\ 0 <= g_brightnessMinBlack /\ g_brightnessMinBlack <= maxForMode("MinBlack")

\* C2: every Decrease or Increase that ProcessInput applies replaces the value v of
\* the mode m active when the value is read and stored (the mode after this frame's
\* toggle, if any) by clamp(v -/+ stepForMode(m), 0, maxForMode(m)); the other
\* mode's value is not written.  The code breaks it in a frame that also toggles.
C2_DeltaIsClampedStep ==
    [][IsProcessInput =>
          LET m  == g_mode'
              v  == NitsOf(m)
              v1 == IF cmd'.dec THEN clamp(v - stepForMode(m), 0, maxForMode(m)) ELSE v
              v2 == IF cmd'.inc THEN clamp(v1 + stepForMode(m), 0, maxForMode(m)) ELSE v1
          IN  v2 = IF m = "MaxWhite" THEN g_brightnessMaxWhite' ELSE g_brightnessMinBlack']_vars

\* C6: a frame that toggles and applies no delta flips the mode and leaves both
\* stored values as they were, and a second such frame, no delta command between,
\* restores the mode and both values (from MaxWhite 800 / MinBlack 0.1 the first
\* toggle shows 0.1, the second 800).
C6_ToggleTwiceRestores ==
    /\ tgl.n = 1 =>
          /\ g_mode # tgl.snap[1]
          /\ g_brightnessMaxWhite = tgl.snap[2]
          /\ g_brightnessMinBlack = tgl.snap[3]
          /\ (tgl.snap = StartUp => NitsOf(g_mode) = 10)
    /\ tgl.n = 2 =>
          /\ <<g_mode, g_brightnessMaxWhite, g_brightnessMinBlack>> = tgl.snap
          /\ (tgl.snap = StartUp => NitsOf(g_mode) = 80000)

\* C6 witness: the second of two toggle-only frames from the start-up state
C6_Witness == tgl.n = 2 /\ tgl.snap = StartUp /\ pc = "render"

\* the merged toggle signal of a sample: SPACE or the pad's X button
ToggleSignal(s) == "VK_SPACE" \in s.keys \/ (s.pad.connected /\ "X" \in s.pad.wButtons)

\* C7: the mode flips in a frame exactly when the merged toggle signal (SPACE or X)
\* is true in it and was false in the frame before: while the signal stays true the
\* mode flips once, in the first frame, and not again until a frame samples it false.
C7_ToggleOneShot ==
    [][IsProcessInput =>
          /\ (g_mode' # g_mode) <=> (ToggleSignal(cmd'.sample) /\ ~spaceWasPressed)
          /\ spaceWasPressed' = ToggleSignal(cmd'.sample)]_vars

\* C7 witness: a frame that samples the toggle signal still held, by the X button,
\* and does not flip the mode
C7_Witness ==
    /\ pc = "render"
    /\ frames >= 2
    /\ "X" \in cmd.sample.pad.wButtons
    /\ ~cmd.tog

\* C9: once a quit has been issued (ESC key-down or WM_DESTROY message, press-edge
\* of the pad's B button) no ProcessInput and no Render begins after the frame that
\* issued it, and the brightness state no longer changes.
C9_NoFrameAfterQuit ==
    [][QuitIssued =>
          /\ pc' # "render"
          /\ frames' = frames
          /\ UNCHANGED <<g_mode, g_brightnessMaxWhite, g_brightnessMinBlack,
                         g_innerBrush>>]_vars

\* C9 witness: the loop has ended after a frame in which the B button quit
C9_Witness == pc = "done" /\ frames >= 1 /\ bWasPressed

\* C10: at every Render the brush component times 80 is the active mode's nits
\* (r = g = b = currentNits() / 80; millionths against hundredths of a nit)
C10_BrushInSync ==
    pc = "render" => g_innerBrush * 8 = NitsOf(g_mode) * 1000

\* C10 witness: a Render after a frame that toggled and then increased
C10_Witness == pc = "render" /\ cmd.tog /\ cmd.inc /\ frames >= 2

-----------------------------------------------------------------------------
(* What the specification says of press, hold and repeat *)

\* time from the press-edge frame of hold h to the current frame
HeldFor(h) == now - h.edgeAt

\* commands of a hold last sampled d ms after its press edge: the initial one and,
\* from 1500 ms on, one at 1500 ms and one every 200 ms after it
CommandsBy(d) == IF d < REPEAT_DELAY THEN 1 ELSE 2 + (d - REPEAT_DELAY) \div REPEAT_INTERVAL

\* C3 as amended: a signal held with the other direction never pressed and sampled
\* every 100 ms, last sampled held d ms after its press edge, has emitted 1 command
\* if d < 1500 and 1 + floor((d - 1500) / 200) + 1 commands if d >= 1500 (the first
\* repeat is emitted in the frame at exactly 1500 ms), and the active value is the
\* value at the press plus (minus) that many steps, clamped.
C3_HoldCommandCount ==
    pc = "render" =>
        /\ rightHold.held /\ rightHold.reg =>
              /\ rightHold.n = CommandsBy(HeldFor(rightHold))
              /\ rightHold.v0 # -1 =>
                    NitsOf(g_mode) = clamp(rightHold.v0 + rightHold.n * stepForMode(g_mode),
                                           0, maxForMode(g_mode))
        /\ leftHold.held /\ leftHold.reg =>
              /\ leftHold.n = CommandsBy(HeldFor(leftHold))
              /\ leftHold.v0 # -1 =>
                    NitsOf(g_mode) = clamp(leftHold.v0 - leftHold.n * stepForMode(g_mode),
                                           0, maxForMode(g_mode))

\* C3 witness: from MaxWhite = 810 an increase held alone and last sampled 1800 ms
\* after its press edge (released by the 1900 ms sample) shows 840
C3_Witness ==
    /\ pc = "render"
    /\ rightHold.held /\ rightHold.reg
    /\ rightHold.v0 = 81000
    /\ HeldFor(rightHold) = 1800
    /\ g_brightnessMaxWhite = 84000

\* C3 as stated: a hold of T >= 1500 ms emits 1 + floor((T - 1500) / 200) commands,
\* whether T ends at the last sample that finds the signal held or at the first
\* sample that finds it released (100 ms later)
C3_AsStated ==
    pc = "render" /\ rightHold.held /\ rightHold.reg /\ HeldFor(rightHold) >= REPEAT_DELAY =>
        \/ rightHold.n = 1 + (HeldFor(rightHold) - REPEAT_DELAY) \div REPEAT_INTERVAL
        \/ rightHold.n = 1 + (HeldFor(rightHold) + 100 - REPEAT_DELAY) \div REPEAT_INTERVAL

\* C4: in a frame at less than 1500 ms from the press edge of a held signal exactly
\* one command has been emitted for it, the one of the press-edge frame, and a
\* frame that samples the signal released emits none for it.
C4_OneCommandInDelayWindow ==
    pc = "render" =>
        /\ leftHold.held /\ HeldFor(leftHold) < REPEAT_DELAY =>
              leftHold.n = 1 /\ (cmd.dec <=> HeldFor(leftHold) = 0)
        /\ rightHold.held /\ HeldFor(rightHold) < REPEAT_DELAY =>
              rightHold.n = 1 /\ (cmd.inc <=> HeldFor(rightHold) = 0)
        /\ ~leftHold.held => ~cmd.dec
        /\ ~rightHold.held => ~cmd.inc

\* C4 witness: the last frame of the delay window of a decrease held while the
\* increase signal is held too
C4_Witness ==
    /\ pc = "render"
    /\ leftHold.held /\ HeldFor(leftHold) = 1400 /\ leftHold.n = 1
    /\ rightHold.held

\* C5: Increase commands are emitted in the same frames as in the run with the same
\* clock and the same increase history in which decrease is never pressed, and
\* Decrease commands as in the run in which increase is never pressed.  The code
\* breaks it: both signals share lastRepeatTime.
C5_Independent ==
    pc = "render" => cmd.inc = cmd.incSolo /\ cmd.dec = cmd.decSolo

(* SpecFair: SpecHold in which the loop keeps running: a frame that can be *)
(* processed is processed, and a processed frame is rendered               *)
FairFrame == HoldFrameWithin(MaxFairChanges)

NextFair ==
    \/ \E m \in Messages : Dispatch(m)
    \/ FairFrame
    \/ Render(100)
    \/ Exit

SpecFair == InitHold /\ [][NextFair]_vars /\ WF_vars(FairFrame) /\ WF_vars(Render(100))

\* a frame, at least 300 ms before the end of the run, that finds hold h past its
\* initial delay
PastDelay(h) ==
    pc = "render" /\ h.held /\ HeldFor(h) >= REPEAT_DELAY /\ now + 300 <= MaxTicks * 100

\* C8: a signal that stays held past its initial delay while frames keep being
\* processed always eventually emits another command, until it is released (or the
\* program quits, or the other direction changes between held and released), when
\* it is held alone and also when the other direction is held at the same time.
\* The code breaks it: with both held past their delays, every due repeat goes to
\* Decrease, which is handled first and restarts the shared lastRepeatTime.
C8_HeldKeepsRepeating ==
    /\ [](PastDelay(rightHold) /\ ~leftHold.held =>
            <>(cmd.inc \/ ~rightHold.held \/ leftHold.held \/ QuitIssued))
    /\ [](PastDelay(leftHold) /\ ~rightHold.held =>
            <>(cmd.dec \/ ~leftHold.held \/ rightHold.held \/ QuitIssued))
    /\ [](PastDelay(rightHold) /\ leftHold.held =>
            <>(cmd.inc \/ ~rightHold.held \/ ~leftHold.held \/ QuitIssued))
    /\ [](PastDelay(leftHold) /\ rightHold.held =>
            <>(cmd.dec \/ ~leftHold.held \/ ~rightHold.held \/ QuitIssued))

\* C11: two consecutive commands of one hold are at least 200 ms apart, the
\* interval running from the previous command of that hold: a frame that finds the
\* signal still held emits a command for it only if the last command of the hold
\* is 200 ms old or older, so with frames 100 ms apart no hold emits a command in
\* two frames in a row.
C11_RepeatsSpaced ==
    [][IsProcessInput =>
          /\ leftHold.held /\ leftHold'.held /\ cmd'.dec =>
                now - leftHold.lastAt >= REPEAT_INTERVAL
          /\ rightHold.held /\ rightHold'.held /\ cmd'.inc =>
                now - rightHold.lastAt >= REPEAT_INTERVAL]_vars

\* C11 witness: the second repeat of a decrease, 1700 ms after its press edge and
\* 200 ms after the first repeat, while the increase signal is held too
C11_Witness ==
    /\ pc = "render"
    /\ cmd.dec
    /\ leftHold.held /\ leftHold.n = 3 /\ HeldFor(leftHold) = 1700
    /\ rightHold.held

-----------------------------------------------------------------------------
(* What the specification says of the layout *)

\* the rectangle r is a square of side h / n pixels whose centre is the centre of
\* the screen of w by h pixels
CentredSquare(r, w, h, n) ==
    /\ n * (r.right - r.left) = Px(h)
    /\ n * (r.bottom - r.top) = Px(h)
    /\ r.left + r.right = Px(w)
    /\ r.top + r.bottom = Px(h)

\* the text band: as wide as the outer square, 40 pixels high, below the outer
\* square's bounds by the gap between the two squares (h / 24)
TextBand(r, w, h) ==
    /\ 6 * (r.right - r.left) = Px(h)
    /\ r.left + r.right = Px(w)
    /\ 24 * (2 * r.top - Px(h)) = 6 * Px(h)
    /\ r.bottom - r.top = Px(40)

\* the layout on the screen right after a Render, the mode being the mode drawn
LayoutAsSpecified ==
    drawn # Undrawn /\ pc # "render" =>
        /\ drawn.outer # <<>> <=> g_mode = "MaxWhite"
        /\ drawn.outer # <<>> => CentredSquare(drawn.outer[1], g_screenWidth, g_screenHeight, 6)
        /\ CentredSquare(drawn.inner[1], g_screenWidth, g_screenHeight, 12)
        /\ TextBand(drawn.textRect[1], g_screenWidth, g_screenHeight)

\* a Render after the first draws the inner square and the text band where the
\* Render before it drew them
TargetStationary ==
    drawn # Undrawn /\ drawn' # drawn =>
        drawn'.inner = drawn.inner /\ drawn'.textRect = drawn.textRect

\* C12: on every screen of w by h pixels Render draws the outer square, of side
\* h / 6 and centred, exactly when the mode is MaxWhite; the inner square has side
\* h / 12 and the centre of the outer square's bounds, and the text band its place
\* below them, in both modes, so no Render moves them.
C12_LayoutFixed == []LayoutAsSpecified /\ [][TargetStationary]_vars

\* C12 witness: on a portrait screen narrower than the outer square, the Render of
\* the second frame, which toggled to MinBlack, the first frame having increased
\* MaxWhite to 810 and its Render having drawn the outer square
C12_Witness ==
    /\ pc = "loop"
    /\ <<g_screenWidth, g_screenHeight>> = <<1, 100>>
    /\ frames = 2
    /\ g_mode = "MinBlack" /\ g_brightnessMaxWhite = 81000 /\ g_brightnessMinBlack = 10
    /\ drawn.outer = <<>>
    /\ drawn.inner # <<>>
    /\ drawn.text = <<"0", ".", "1", "0">>

-----------------------------------------------------------------------------
(* What the specification says of the inactive mode *)

\* C13: a frame leaves the stored value of the mode that is inactive at its end as
\* it was: its Decrease and Increase commands write the value of the mode that is
\* active when they are applied, the mode after the toggle of that frame, and a
\* frame that only toggles writes neither value.
C13_InactiveUntouched ==
    [][IsProcessInput =>
          /\ g_mode' = "MaxWhite" => g_brightnessMinBlack' = g_brightnessMinBlack
          /\ g_mode' = "MinBlack" => g_brightnessMaxWhite' = g_brightnessMaxWhite
          /\ ~cmd'.dec /\ ~cmd'.inc =>
                UNCHANGED <<g_brightnessMaxWhite, g_brightnessMinBlack>>]_vars

\* C13 witness: a frame that toggles from MaxWhite to MinBlack and decreases: it
\* wrote the MinBlack value and left MaxWhite at the value it had been increased to
C13_Witness ==
    /\ pc = "render"
    /\ cmd.tog /\ cmd.dec /\ ~cmd.inc
    /\ g_mode = "MinBlack"
    /\ g_brightnessMaxWhite = 81000
    /\ g_brightnessMinBlack = 0

-----------------------------------------------------------------------------
(* What the specification says of the merged signals *)

\* the decrease signal of a sample: LEFT key, D-pad left, or stick beyond -16000
DecreaseSignal(s) ==
    \/ "VK_LEFT" \in s.keys
    \/ s.pad.connected /\ "DPAD_LEFT" \in s.pad.wButtons
    \/ s.pad.connected /\ s.pad.sThumbLX < -16000

\* the increase signal of a sample: RIGHT key, D-pad right, or stick beyond 16000
IncreaseSignal(s) ==
    \/ "VK_RIGHT" \in s.keys
    \/ s.pad.connected /\ "DPAD_RIGHT" \in s.pad.wButtons
    \/ s.pad.connected /\ s.pad.sThumbLX > 16000

\* the sources that hold the decrease signal in a sample
DecreaseSources(s) ==
    (IF "VK_LEFT" \in s.keys THEN {"key"} ELSE {})
    \cup (IF s.pad.connected /\ "DPAD_LEFT" \in s.pad.wButtons THEN {"dpad"} ELSE {})
    \cup (IF s.pad.connected /\ s.pad.sThumbLX < -16000 THEN {"stick"} ELSE {})

\* C14: what a frame remembers of each direction is the OR of its key, its D-pad
\* button and the stick beyond the threshold, and a frame that finds the merged
\* signal true after a frame that found it true, by whatever source, keeps the
\* press-start time and emits a command for it only as a repeat, 1500 ms or more
\* after the press edge of the merged signal.
C14_MergedEdge ==
    [][IsProcessInput =>
          /\ leftWasPressed' = DecreaseSignal(cmd'.sample)
          /\ rightWasPressed' = IncreaseSignal(cmd'.sample)
          /\ leftWasPressed /\ DecreaseSignal(cmd'.sample) =>
                /\ leftPressStartTime' = leftPressStartTime
                /\ cmd'.dec => HeldFor(leftHold) >= REPEAT_DELAY
          /\ rightWasPressed /\ IncreaseSignal(cmd'.sample) =>
                /\ rightPressStartTime' = rightPressStartTime
                /\ cmd'.inc => HeldFor(rightHold) >= REPEAT_DELAY]_vars

\* C14 witness: a decrease pressed by the key and the D-pad together and held by
\* the D-pad alone 750 ms later, the key released: no command in that frame
C14_Witness ==
    /\ pc = "render"
    /\ frames = 2
    /\ DecreaseSources(cmd.prev) = {"key", "dpad"}
    /\ DecreaseSources(cmd.sample) = {"dpad"}
    /\ leftHold.held /\ HeldFor(leftHold) = 750 /\ leftHold.n = 1
    /\ ~cmd.dec

-----------------------------------------------------------------------------
(* What the specification says of a release and the press after it *)

\* hold h, with press-start time start, whose commands are told by emitted and the
\* other direction's by otherEmitted, in a frame of a run sampled every 500 ms
FreshHold(h, start, emitted, otherEmitted) ==
    /\ ~h.held => ~emitted
    /\ h.held /\ HeldFor(h) = 0 =>
          emitted /\ h.n = 1 /\ start = tick /\ lastRepeatTime = tick
    /\ h.held /\ 0 < HeldFor(h) /\ HeldFor(h) < REPEAT_DELAY => ~emitted /\ h.n = 1
    /\ h.held /\ HeldFor(h) >= REPEAT_DELAY /\ ~otherEmitted => emitted
    /\ h.held /\ HeldFor(h) = REPEAT_DELAY /\ emitted => h.n = 2

\* C15: a frame that samples a signal released emits no command for it; the frame
\* of its next press edge emits one command and restarts both timers at the time
\* of that frame; no further command follows for 1500 ms from that press edge, and
\* the frame at 1500 ms emits the first repeat (unless the other direction emits in
\* that frame), whether or not the hold before had repeated.
C15_FreshDelay ==
    pc = "render" =>
        /\ FreshHold(leftHold, leftPressStartTime, cmd.dec, cmd.inc)
        /\ FreshHold(rightHold, rightPressStartTime, cmd.inc, cmd.dec)

\* C15 witness: the first repeat of a second decrease hold, 1500 ms after its press
\* edge, the hold before it having repeated before its release
C15_Witness ==
    /\ pc = "render"
    /\ leftHold.held /\ leftHold.rep
    /\ HeldFor(leftHold) = REPEAT_DELAY
    /\ leftHold.n = 2
    /\ cmd.dec

-----------------------------------------------------------------------------
(* What the specification says of the wrap of the tick counter *)

\* the tick counter has wrapped since the time start was taken
WrappedSince(start) == start.hi = 65535 /\ tick.hi = 0

\* hold h, with press-start time start, pressed before the wrap and found held
\* after it: the elapsed times the code computes are the real ones, and its
\* commands are those of a hold without wrap
AcrossWrap(h, start) ==
    h.held /\ WrappedSince(start) =>
        /\ DwSub(tick, start) = [hi |-> 0, lo |-> HeldFor(h)]
        /\ HeldFor(h) < REPEAT_DELAY => h.n = 1
        /\ h.reg => /\ h.n = CommandsBy(HeldFor(h))
                    /\ DwSub(tick, lastRepeatTime) = [hi |-> 0, lo |-> now - h.lastAt]

\* C16: for a press that begins before the 32-bit tick counter wraps and is held
\* across the wrap, (currentTime - startTime) mod 2^32 is the real time held: no
\* repeat before 1500 ms, and then, for a signal held alone and sampled every
\* 100 ms, a repeat at 1500 ms and every 200 ms, as for a hold without wrap.
C16_WrapNeutral ==
    pc = "render" =>
        /\ AcrossWrap(leftHold, leftPressStartTime)
        /\ AcrossWrap(rightHold, rightPressStartTime)

\* C16 witness: an increase pressed 500 ms before the wrap and held alone emits
\* its second repeat 1700 ms after the press, 1200 ms after the wrap
C16_Witness ==
    /\ pc = "render"
    /\ rightHold.held /\ rightHold.reg
    /\ rightPressStartTime = [hi |-> 65535, lo |-> 65036]
    /\ tick = [hi |-> 0, lo |-> 1200]
    /\ HeldFor(rightHold) = 1700
    /\ rightHold.n = 3
    /\ cmd.inc

====
